---------------------------- MODULE Spec2Model ----------------------------
(***************************************************************************)
(* Time-lock notes (korjavin/drand-poc): the time-lock codec               *)
(* (internal/crypt/crypto: Encrypt, Decrypt), the beacon client            *)
(* (internal/crypt/drand: FetchRandomness), the Badger record store        *)
(* (storage: Save, Get) and the two HTTP handlers that compose them        *)
(* (server: handleCreateNote, handleGetNote).                              *)
(*                                                                         *)
(* Scaling.  TLC's integers are 32 bits wide, so Go's 64-bit integers are  *)
(* modelled WordBits wide, with the same two's-complement wrapping, and    *)
(* the time constants are scaled down with them: an instant is a count of  *)
(* Duration units since the Unix epoch, a second is Second units, the      *)
(* beacon period and genesis and the retention window are a few seconds.   *)
(* What is kept is the structure of the arithmetic: which values are       *)
(* signed, which are unsigned, where a conversion truncates, wraps or      *)
(* saturates, and that a Duration overflows long before a count of         *)
(* seconds does.                                                           *)
(***************************************************************************)
EXTENDS Integers, Sequences, FiniteSets, TLC

VARIABLES
    now,        \* the wall clock, time.Now(), in Duration units since the epoch
    enc,        \* what the last Encrypt call returned to its caller
    ret,        \* what the call made at this instant returned (NoCall after a tick)
    db,         \* the Badger key-value store: key -> [value, ExpiresAt]
    testMode,   \* Server.testMode
    issued,     \* how many ids uuid.New() has handed out
    inflight    \* the Decrypt call that is waiting in FetchRandomness, if any

vars == <<now, enc, ret, db, testMode, issued, inflight>>

---------------------------------------------------------------------------
(* Bounds of the model. *)

\* width, in bits, of the model's int64 / uint64 / time.Duration
WordBits == 7
\* the clock stops advancing at MaxNow (units)
MaxNow == 17
\* notes the server creates in one run
MaxNotes == 1

---------------------------------------------------------------------------
(* Program constants (scaled as described above). *)

\* time.Second, in Duration units (1e9 in Go)
Second == 2
\* genesisTime, Unix seconds (1595431050 in Go)
GenesisTime == 4
\* period, seconds (30 in Go)
Period == 2
\* the retention window of Save, seconds (7 * 24 hours in Go)
RetentionSeconds == 3
\* AES-256 key, GCM nonce, GCM tag, and the shortest blob Decrypt accepts
KeySize == 32
NonceSize == 12
TagSize == 16
MinCiphertext == 44
\* the time FetchRandomness gives the beacon to answer, seconds
FetchTimeoutSeconds == 5
\* the round number handleCreateNote stores in test mode
TestRound == 12345

\* the clock at the start (units): one second after genesis
StartNow == (GenesisTime + 1) * Second

---------------------------------------------------------------------------
(* Go integer arithmetic. *)

Word == 2 ^ WordBits
MaxInt64 == (Word \div 2) - 1
MinInt64 == -(Word \div 2)

\* conversion to uint64
Uint64(x) == x % Word

\* conversion to int64 (and the wrap of an int64 result)
Int64(x) == LET m == x % Word IN IF m > MaxInt64 THEN m - Word ELSE m

\* Go's integer division truncates toward zero
TruncDiv(a, b) == IF a >= 0 THEN a \div b ELSE -((-a) \div b)

RECURSIVE XorBits(_, _, _)
XorBits(a, b, n) ==
    IF n = 0 THEN 0
    ELSE ((a + b) % 2) + 2 * XorBits(a \div 2, b \div 2, n - 1)

\* the ^ of two bytes, tabulated
XorTable == [a \in 0 .. 255 |-> [b \in 0 .. 255 |-> XorBits(a, b, 8)]]
Xor(a, b) == XorTable[a][b]

---------------------------------------------------------------------------
(* package time. *)

\* Time.Unix(): whole seconds since the epoch, rounded down
Unix(t) == t \div Second

\* time.Unix(sec, 0)
TimeOfUnix(sec) == sec * Second

\* Time.Sub: the difference as a Duration, saturating at its two ends
Sub(t, u) ==
    LET d == t - u
    IN  IF d > MaxInt64 THEN MaxInt64 ELSE IF d < MinInt64 THEN MinInt64 ELSE d

\* Time.Add
Add(t, d) == t + d


---------------------------------------------------------------------------
(* crypto/aes + crypto/cipher: AES-256-GCM, and crypto/sha256.             *)
(* The primitives are library code.  They are modelled by small            *)
(* deterministic stand-ins with the same shape: Seal appends a TagSize     *)
(* tag computed over key, nonce and ciphertext, Open recomputes the tag    *)
(* and refuses on any difference, and only then removes the key stream.    *)
(* The tag weights make every change of a single byte of key, nonce,       *)
(* ciphertext or tag change the comparison, as GCM authentication does.    *)
(* Nothing below relies on the secrecy the real primitives give.           *)

Byte == 0 .. 255

RECURSIVE Sum0(_, _)
\* the sum of s[1 .. n]
Sum0(s, n) == IF n = 0 THEN 0 ELSE s[n] + Sum0(s, n - 1)

RECURSIVE Sum1(_, _)
\* the sum of i * s[i] over 1 .. n
Sum1(s, n) == IF n = 0 THEN 0 ELSE n * s[n] + Sum1(s, n - 1)

\* digest byte j of a message with the sums s0 and s1: the sum of
\* (i + j) * s[i], so that a change of one byte changes some digest byte
Digest(s0, s1, len, size) == [j \in 1 .. size |-> (s1 + j * s0 + len) % 256]

KeyStream(key, nonce, i) ==
    (key[((i - 1) % KeySize) + 1] + nonce[((i - 1) % NonceSize) + 1] + i) % 256

GcmCrypt(key, nonce, data) ==
    [i \in 1 .. Len(data) |-> Xor(data[i], KeyStream(key, nonce, i))]

GcmTag(key, nonce, ct) ==
    LET msg == key \o nonce \o ct
    IN  Digest(Sum0(msg, Len(msg)), Sum1(msg, Len(msg)), Len(ct), TagSize)

\* aesgcm.Seal(nil, nonce, plaintext, nil)
Seal(key, nonce, plaintext) ==
    LET ct == GcmCrypt(key, nonce, plaintext)
    IN  ct \o GcmTag(key, nonce, ct)

\* aesgcm.Open(nil, nonce, data, nil)
Open(key, nonce, data) ==
    IF Len(data) < TagSize
    THEN [ok |-> FALSE, plaintext |-> <<>>]
    ELSE LET n   == Len(data) - TagSize
             ct  == SubSeq(data, 1, n)
             tag == SubSeq(data, n + 1, Len(data))
         IN  IF tag = GcmTag(key, nonce, ct)
             THEN [ok |-> TRUE, plaintext |-> GcmCrypt(key, nonce, ct)]
             ELSE [ok |-> FALSE, plaintext |-> <<>>]

\* sha256.Sum256: a 32-byte digest of the whole input
Sha256(data) == Digest(Sum0(data, Len(data)), Sum1(data, Len(data)), Len(data), 32)

HexDigits ==
    <<"0", "1", "2", "3", "4", "5", "6", "7",
      "8", "9", "a", "b", "c", "d", "e", "f">>

RECURSIVE HexEncodeToString(_)
\* hex.EncodeToString
HexEncodeToString(bytes) ==
    IF bytes = <<>> THEN ""
    ELSE HexDigits[(Head(bytes) \div 16) + 1] \o HexDigits[(Head(bytes) % 16) + 1]
           \o HexEncodeToString(Tail(bytes))

---------------------------------------------------------------------------
(* The inputs the calls are tried with. *)

\* what rand.Reader delivers: a key and a nonce
Keys == { [i \in 1 .. KeySize |-> (7 * i) % 256] }
Nonces == { [i \in 1 .. NonceSize |-> i] }

\* the empty text, "hi" and "<i"
Plaintexts == { <<>>, <<104, 105>>, <<60, 105>> }

\* unlock instants (units): before the epoch, between epoch and genesis
\* (more and less than a period before it), in rounds 1, 1, 2 and 2 (on a
\* round boundary and inside a round), and too far ahead for a Duration
UnlockChoices == { -20, 3, 7, 13, 15, 16, 19, 80 }

\* rounds Decrypt is called with besides the one Encrypt returned: the
\* first round, the first whose Duration wraps, and the largest uint64
RoundChoices == { 0, Word \div (2 * Period * Second), Word - 1 }

\* what DefaultClient.FetchRandomness answers: an error, or a randomness
\* (empty, one byte, or 32 bytes: all zero, or zero but for one byte)
Randomness ==
    { <<>>, <<1>>,
      [i \in 1 .. 32 |-> 0],
      [i \in 1 .. 32 |-> IF i = 5 THEN 1 ELSE 0] }
Beacons ==
    { [err |-> TRUE, randomness |-> <<>>] }
      \cup { [err |-> FALSE, randomness |-> r] : r \in Randomness }

\* one byte of a blob changed: the byte at pos xor-ed with delta
Tamper(blob, pos, delta) == [blob EXCEPT ![pos] = Xor(@, delta)]
\* a key byte, a nonce byte, the first byte after the nonce, the last byte
TamperPositions(blob) == { 5, 40, MinCiphertext + 1, Len(blob) }
Tampered(blob) ==
    IF Len(blob) <= MinCiphertext THEN {}
    ELSE { Tamper(blob, pos, 1) : pos \in TamperPositions(blob) }
           \cup { Tamper(blob, 5, 128) }

\* a blob cut short: to nothing, and to one byte less than Decrypt accepts
Truncated(blob) ==
    IF Len(blob) < MinCiphertext THEN {}
    ELSE { <<>>, SubSeq(blob, 1, MinCiphertext - 1) }

\* a blob cut to the shortest length Decrypt accepts: key and nonce only
CutToMinimum(blob) ==
    IF Len(blob) < MinCiphertext THEN {}
    ELSE { SubSeq(blob, 1, MinCiphertext) }

---------------------------------------------------------------------------
(* internal/crypt/crypto: the time-lock codec. *)

ErrNil == "nil"
ErrTooEarly == "too early to decrypt"
ErrUnlockTime == "unlock time must be in the future"
ErrFetch == "failed to fetch randomness"
ErrTooShort == "invalid ciphertext: too short"
ErrDecrypt == "failed to decrypt"
\* i % len(randomness) with an empty randomness: Go panics
PanicDivide == "panic: integer divide by zero"

\* the round Encrypt computes for an instant t
RoundOf(t) == Uint64(TruncDiv(Int64(Unix(t) - GenesisTime), Period))

\* the second half of Encrypt: seal the plaintext under the key, pack
\* key, nonce and sealed data into one blob, hash the blob
Pack(plaintext, key, nonce) ==
    LET cipherData == Seal(key, nonce, plaintext)
        combined   == key \o nonce \o cipherData
    IN  [ciphertext |-> combined, hash |-> Sha256(combined)]

\* Pack over the inputs the model uses, computed once
PackTable ==
    [plaintext \in Plaintexts |->
        [key \in Keys |-> [nonce \in Nonces |-> Pack(plaintext, key, nonce)]]]

\* Encrypt(plaintext, unlockAt), with the clock reading and the bytes that
\* rand.Reader delivers for the key and the nonce
Encrypt(plaintext, unlockAt, clock, key, nonce) ==
    LET currentRound == RoundOf(clock)
        round        == RoundOf(unlockAt)
    IN  IF round <= currentRound
        THEN [ciphertext |-> <<>>, hash |-> <<>>, round |-> 0,
              err |-> ErrUnlockTime]
        ELSE [ciphertext |-> PackTable[plaintext][key][nonce].ciphertext,
              hash |-> PackTable[plaintext][key][nonce].hash,
              round |-> round, err |-> ErrNil]

\* the unlock time Decrypt computes from the round:
\* genesisTime.Add(time.Duration(round) * period)
UnlockTime(round) ==
    Add(TimeOfUnix(GenesisTime), Int64(Int64(round) * (Period * Second)))

\* actualKey[i] = key[i] ^ randomness[i % len(randomness)]
ActualKey(key, randomness) ==
    [i \in 1 .. KeySize |->
        Xor(key[i], randomness[((i - 1) % Len(randomness)) + 1])]

\* the second half of Decrypt, for a blob of MinCiphertext bytes or more
\* and a randomness that is not empty: split the blob, derive the key, open
Unpack(ciphertext, randomness) ==
    LET key           == SubSeq(ciphertext, 1, KeySize)
        nonce         == SubSeq(ciphertext, KeySize + 1, MinCiphertext)
        encryptedData == SubSeq(ciphertext, MinCiphertext + 1, Len(ciphertext))
        actualKey     == ActualKey(key, randomness)
        opened        == Open(actualKey, nonce, encryptedData)
    IN  IF opened.ok
        THEN [plaintext |-> opened.plaintext, err |-> ErrNil]
        ELSE [plaintext |-> <<>>, err |-> ErrDecrypt]

\* the blobs Encrypt can return in the model, and those with one byte changed
EncryptBlobs ==
    { PackTable[plaintext][key][nonce].ciphertext :
        plaintext \in Plaintexts, key \in Keys, nonce \in Nonces }
TestBlobs == UNION { {b} \cup Tampered(b) \cup CutToMinimum(b) : b \in EncryptBlobs }

\* Unpack over the blobs and randomness the model uses, computed once
UnpackTable ==
    [ciphertext \in TestBlobs |->
        [randomness \in Randomness \ {<<>>} |-> Unpack(ciphertext, randomness)]]

\* a length check that also refuses a blob of exactly MinCiphertext bytes
TooShortOrMinimal(ciphertext) == Len(ciphertext) <= MinCiphertext

\* len(ciphertext) < 44
TooShort(ciphertext) == Len(ciphertext) < MinCiphertext

\* Decrypt(ciphertext, round), with the clock reading and what the beacon
\* client answers if it is asked: [err, randomness]
Decrypt(ciphertext, round, clock, beacon) ==
    IF clock < UnlockTime(round)
    THEN [plaintext |-> <<>>, err |-> ErrTooEarly, fetched |-> FALSE]
    ELSE IF beacon.err
    THEN [plaintext |-> <<>>, err |-> ErrFetch, fetched |-> TRUE]
    ELSE IF TooShort(ciphertext)
    THEN [plaintext |-> <<>>, err |-> ErrTooShort, fetched |-> TRUE]
    ELSE IF Len(beacon.randomness) = 0
    THEN [plaintext |-> <<>>, err |-> PanicDivide, fetched |-> TRUE]
    ELSE [plaintext |-> UnpackTable[ciphertext][beacon.randomness].plaintext,
          err |-> UnpackTable[ciphertext][beacon.randomness].err,
          fetched |-> TRUE]

---------------------------------------------------------------------------
(* State. *)

NoCall == [op |-> "none"]

NoEncrypt ==
    [plaintext |-> <<>>, unlockAt |-> 0, currentRound |-> 0,
     ciphertext |-> <<>>, hash |-> <<>>, round |-> 0, err |-> "none"]

\* no Decrypt call is waiting for the beacon
NoFetch == [pc |-> "idle"]

Init ==
    /\ now = StartNow
    /\ enc = NoEncrypt
    /\ ret = NoCall
    /\ db = << >>
    /\ testMode \in BOOLEAN
    /\ issued = 0
    /\ inflight = NoFetch

\* time passes; while a fetch is waiting, up to its deadline, where the
\* context of the fetch expires
Tick ==
    /\ IF inflight = NoFetch THEN now < MaxNow ELSE now < inflight.deadline
    /\ now' = now + 1
    /\ ret' = NoCall
    /\ UNCHANGED <<enc, db, testMode, issued, inflight>>

---------------------------------------------------------------------------
(* The codec called directly. *)

EncryptCall ==
    \E plaintext \in Plaintexts, unlockAt \in UnlockChoices,
       key \in Keys, nonce \in Nonces :
        LET r == Encrypt(plaintext, unlockAt, now, key, nonce)
        IN  /\ enc' = [plaintext |-> plaintext, unlockAt |-> unlockAt,
                       currentRound |-> RoundOf(now),
                       ciphertext |-> r.ciphertext, hash |-> r.hash,
                       round |-> r.round, err |-> r.err]
            /\ ret' = [op |-> "Encrypt"]
            /\ UNCHANGED <<now, db, testMode, issued, inflight>>

\* Decrypt is called with the blob and round of the last Encrypt, with that
\* blob changed in one byte or cut short, or with another round
DecryptInputs ==
    { <<b, enc.round>> : b \in {enc.ciphertext} \cup Tampered(enc.ciphertext)
                                 \cup Truncated(enc.ciphertext)
                                 \cup CutToMinimum(enc.ciphertext) }
      \cup { <<enc.ciphertext, r>> : r \in RoundChoices }

DecryptCall ==
    \E in \in DecryptInputs, beacon \in Beacons :
        LET r == Decrypt(in[1], in[2], now, beacon)
        IN  /\ ret' = [op |-> "Decrypt", ciphertext |-> in[1], round |-> in[2],
                       beacon |-> beacon, plaintext |-> r.plaintext,
                       err |-> r.err, fetched |-> r.fetched]
            /\ UNCHANGED <<now, enc, db, testMode, issued, inflight>>

InitCodec == Init /\ testMode = FALSE
NextCodec == Tick \/ EncryptCall \/ DecryptCall
SpecCodec == InitCodec /\ [][NextCodec]_vars

---------------------------------------------------------------------------
(* Decrypt step by step: the clock check, then the wait in                 *)
(* FetchRandomness under context.WithTimeout, then the rest.  The beacon   *)
(* may answer at any time before the deadline or never; the drand client   *)
(* is taken to return with an error once its context has expired.          *)

\* context.WithTimeout(context.Background(), 5*time.Second)
FetchTimeout == FetchTimeoutSeconds * Second

\* blobs and rounds of the calls: no blob and an Encrypt blob; rounds whose
\* instant has come, comes while the clock runs, and does not come
FetchBlobs == { <<>>, PackTable[<<104, 105>>][CHOOSE k \in Keys : TRUE]
                               [CHOOSE n \in Nonces : TRUE].ciphertext }
FetchRounds == { 0, 2, 5 }

\* what a Decrypt call that has ended returned
Returned(ciphertext, round, clock, beacon, waited) ==
    LET r == Decrypt(ciphertext, round, clock, beacon)
    IN  [op |-> "Decrypt", ciphertext |-> ciphertext, round |-> round,
         beacon |-> beacon, plaintext |-> r.plaintext, err |-> r.err,
         fetched |-> r.fetched, waited |-> waited]

\* Decrypt is called: it reads the clock and either returns ErrTooEarly or
\* calls FetchRandomness, which sets the deadline and asks the beacon
DecryptBegin ==
    /\ inflight = NoFetch
    /\ now <= MaxNow
    /\ \E ciphertext \in FetchBlobs, round \in FetchRounds :
          IF now < UnlockTime(round)
          THEN /\ ret' = Returned(ciphertext, round, now,
                                  [err |-> TRUE, randomness |-> <<>>], 0)
               /\ UNCHANGED inflight
          ELSE /\ inflight' = [pc |-> "fetching", ciphertext |-> ciphertext,
                               round |-> round, clock |-> now,
                               deadline |-> now + FetchTimeout]
               /\ ret' = NoCall
    /\ UNCHANGED <<now, enc, db, testMode, issued>>

\* a context that never expires
NeverTimedOut(fetch, clock) == FALSE

\* ctx.Done(): the deadline of the fetch has come
TimedOut(fetch, clock) == clock >= fetch.deadline

\* the beacon answers before the deadline, with a value or with an error
\* (network failure, round not published), and Decrypt runs to its end
BeaconAnswers ==
    /\ inflight # NoFetch
    /\ ~TimedOut(inflight, now)
    /\ \E beacon \in Beacons :
          ret' = Returned(inflight.ciphertext, inflight.round, inflight.clock,
                          beacon, now - inflight.clock)
    /\ inflight' = NoFetch
    /\ UNCHANGED <<now, enc, db, testMode, issued>>

\* the deadline comes first: client.Get returns the context's error and
\* Decrypt returns the fetch error
FetchTimesOut ==
    /\ inflight # NoFetch
    /\ TimedOut(inflight, now)
    /\ ret' = Returned(inflight.ciphertext, inflight.round, inflight.clock,
                       [err |-> TRUE, randomness |-> <<>>], now - inflight.clock)
    /\ inflight' = NoFetch
    /\ UNCHANGED <<now, enc, db, testMode, issued>>

NextFetch == Tick \/ DecryptBegin \/ BeaconAnswers \/ FetchTimesOut
\* the clock keeps running and an expired context ends the fetch
SpecFetch ==
    InitCodec /\ [][NextFetch]_vars /\ WF_vars(Tick) /\ WF_vars(FetchTimesOut)

---------------------------------------------------------------------------
(* storage: the Badger record store. *)
(* Badger is library code: an entry written WithTTL(d) carries             *)
(* ExpiresAt = uint64(now + d, in Unix seconds), and a read treats an      *)
(* entry as absent once ExpiresAt is not zero and at most the Unix second  *)
(* of the clock.  Save reads the clock twice, in time.Until and in         *)
(* WithTTL; the two readings are taken to be the same instant.  Failures   *)
(* of the storage engine itself are not modelled.                          *)

ErrNotFound == "note not found"
ErrMarshal == "failed to marshal note"

\* the retention window as a Duration: 7 * 24 * time.Hour
Retention == RetentionSeconds * Second

\* encoding/json refuses a time whose year is outside 0 .. 9999; such
\* instants lie beyond what a Duration spans and within what int64 seconds
\* span
MaxJSONTime == (3 * Word * Second) \div 8
MinJSONTime == -MaxJSONTime

\* time.Time{}, the zero time (1 January of year 1)
ZeroTime == MinJSONTime + 1

\* Note{}
EmptyNote ==
    [ID |-> "", Hash |-> "", Cipher |-> <<>>, Round |-> 0, UnlockAt |-> ZeroTime]

\* json.Marshal(n): the fields in the order of the struct
MarshalNote(n) ==
    IF n.UnlockAt < MinJSONTime \/ n.UnlockAt > MaxJSONTime
    THEN [err |-> TRUE, data |-> <<>>]
    ELSE [err |-> FALSE,
          data |-> <<n.ID, n.Hash, n.Cipher, n.Round, n.UnlockAt>>]

\* a decoder that does not fill in Round
UnmarshalNoteWithoutRound(data) ==
    [ID |-> data[1], Hash |-> data[2], Cipher |-> data[3],
     Round |-> 0, UnlockAt |-> data[5]]

\* json.Unmarshal(val, &note)
UnmarshalNote(data) ==
    [ID |-> data[1], Hash |-> data[2], Cipher |-> data[3],
     Round |-> data[4], UnlockAt |-> data[5]]

\* a key made of the id alone
KeyOfIdOnly(id, hash) == id

\* the composite key: fmt.Sprintf("%s:%s", id, hash)
Key(id, hash) == id \o ":" \o hash

\* txn.SetEntry
Put(store, key, entry) ==
    [k \in DOMAIN store \cup {key} |-> IF k = key THEN entry ELSE store[k]]

\* an entry whose ExpiresAt is the TTL itself, counted from the epoch
WithTTLFromEpoch(data, ttl, clock) ==
    [value |-> data, ExpiresAt |-> Uint64(Unix(ttl))]

\* badger.NewEntry(key, data).WithTTL(ttl)
WithTTL(data, ttl, clock) ==
    [value |-> data, ExpiresAt |-> Uint64(Unix(Add(clock, ttl)))]

\* Badger's view of an entry that has passed its ExpiresAt
Expired(entry, clock) ==
    entry.ExpiresAt # 0 /\ entry.ExpiresAt <= Uint64(Unix(clock))

\* BadgerStore.Save(ctx, n): the store afterwards and the error returned
Save(store, clock, n) ==
    LET ttl == Sub(Add(n.UnlockAt, Retention), clock)
        m   == MarshalNote(n)
    IN  IF m.err
        THEN [db |-> store, err |-> ErrMarshal]
        ELSE [db |-> Put(store, Key(n.ID, n.Hash), WithTTL(m.data, ttl, clock)),
              err |-> ErrNil]

\* BadgerStore.Get(ctx, id, hash): the note and the error returned
Get(store, clock, id, hash) ==
    LET key == Key(id, hash)
    IN  IF key \notin DOMAIN store \/ Expired(store[key], clock)
        THEN [note |-> EmptyNote, err |-> ErrNotFound]
        ELSE [note |-> UnmarshalNote(store[key].value), err |-> ErrNil]

---------------------------------------------------------------------------
(* The store called directly. *)

\* ids and fingerprints, with and without the separator of the key
IDs == { "a", "a:b" }
Hashes == { "c", "b:c" }

\* unlock instants of saved notes (units): before the epoch, more than a
\* retention window ago, expiring while the clock runs, expiring after it
\* stops, further ahead than a Duration spans, and beyond what JSON encodes
SaveUnlockChoices == { -20, 2, 8, 13, StartNow + MaxInt64, MaxJSONTime + 1 }

\* the notes Save is called with; blob and round go with the id
NoteChoices ==
    { [ID |-> id, Hash |-> hash,
       Cipher |-> IF id = "a" THEN <<1>> ELSE <<2, 3>>,
       Round |-> IF id = "a" THEN 1 ELSE 7,
       UnlockAt |-> u] : id \in IDs, hash \in Hashes, u \in SaveUnlockChoices }

SaveCall ==
    \E n \in NoteChoices :
        /\ db' = Save(db, now, n).db
        /\ ret' = [op |-> "Save", note |-> n, err |-> Save(db, now, n).err]
        /\ UNCHANGED <<now, enc, testMode, issued, inflight>>

GetCall ==
    \E id \in IDs, hash \in Hashes :
        /\ ret' = [op |-> "Get", id |-> id, hash |-> hash,
                   note |-> Get(db, now, id, hash).note,
                   err |-> Get(db, now, id, hash).err]
        /\ UNCHANGED <<now, enc, db, testMode, issued, inflight>>

InitStore == Init /\ testMode = FALSE
NextStore == Tick \/ SaveCall \/ GetCall
SpecStore == InitStore /\ [][NextStore]_vars

---------------------------------------------------------------------------
(* server: the HTTP handlers. *)

\* a POST /api/note body: not JSON at all, or a text with an unlock_at
\* that time.Parse(time.RFC3339, ...) rejects or turns into an instant
Texts == Plaintexts
\* (units): far enough before genesis for the Duration of the wrapped round
\* to wrap again, before the epoch, between epoch and genesis, inside round
\* 1 (twice), on the boundary of round 2, and too far ahead for a Duration
ServerUnlockChoices == { -60, -20, 2, 13, 15, 16, 80 }
Requests ==
    { [decodes |-> FALSE, text |-> <<>>, parses |-> FALSE, unlockAt |-> 0] }
      \cup { [decodes |-> TRUE, text |-> t, parses |-> FALSE, unlockAt |-> 0] :
               t \in Texts }
      \cup { [decodes |-> TRUE, text |-> t, parses |-> TRUE, unlockAt |-> u] :
               t \in Texts, u \in ServerUnlockChoices }

\* uuid.New().String(): the n-th id handed out
UUIDs == <<"u1", "u2", "u3">>

\* the fake hash of test mode: hash[i] = byte(i)
TestHash == [i \in 1 .. 32 |-> i - 1]

\* the answer to a request that stopped before a note was stored
Refused(status) == [op |-> "POST", status |-> status, id |-> "", hash |-> ""]

\* handleCreateNote: POST /api/note
handleCreateNote ==
    \E req \in Requests, key \in Keys, nonce \in Nonces :
        /\ issued < MaxNotes
        /\ IF ~req.decodes \/ req.text = <<>> \/ ~req.parses
           THEN /\ ret' = Refused(400)
                /\ UNCHANGED <<db, issued>>
           ELSE LET e == IF testMode
                         THEN [ciphertext |-> req.text, hash |-> TestHash,
                               round |-> TestRound, err |-> ErrNil]
                         ELSE Encrypt(req.text, req.unlockAt, now, key, nonce)
                    id      == UUIDs[issued + 1]
                    hashHex == HexEncodeToString(e.hash)
                    note    == [ID |-> id, Hash |-> hashHex, Cipher |-> e.ciphertext,
                                Round |-> e.round, UnlockAt |-> req.unlockAt]
                    saved   == Save(db, now, note)
                IN  IF e.err # ErrNil
                    THEN /\ ret' = Refused(500)
                         /\ UNCHANGED <<db, issued>>
                    ELSE /\ issued' = issued + 1
                         /\ db' = saved.db
                         /\ ret' = IF saved.err # ErrNil
                                   THEN Refused(500)
                                   ELSE [op |-> "POST", status |-> 201,
                                         id |-> id, hash |-> hashHex,
                                         text |-> req.text,
                                         unlockAt |-> req.unlockAt]
        /\ UNCHANGED <<now, enc, testMode, inflight>>

\* the notes of all entries of the store, expired or not
StoredNotes == { UnmarshalNote(db[k].value) : k \in DOMAIN db }

\* the {id} and {h} of GET /note/{id}/{h}: the links that were handed out,
\* and links that differ from them in the id or in the fingerprint
Links ==
    UNION { { <<m.ID, m.Hash>>, <<m.ID, "00">>, <<"zz", m.Hash>> } : m \in StoredNotes }
      \cup { <<"zz", "00">> }

\* html/template's escaping of one byte of text: & < > are written as
\* entities (as are quotes, + and NUL, which the model's texts do not hold)
EscapeByte(b) ==
    IF b = 38 THEN <<38, 97, 109, 112, 59>>
    ELSE IF b = 60 THEN <<38, 108, 116, 59>>
    ELSE IF b = 62 THEN <<38, 103, 116, 59>>
    ELSE <<b>>

\* what {{.Content}} puts into the page for a text
RECURSIVE HTMLEscapeString(_)
HTMLEscapeString(text) ==
    IF text = <<>> THEN <<>>
    ELSE EscapeByte(Head(text)) \o HTMLEscapeString(Tail(text))

\* every error of Decrypt answered as the locked outcome
StatusOfAnyErrorLocked(decryptErr) ==
    IF decryptErr # ErrNil THEN 403 ELSE 200

\* the status handleGetNote answers for what Decrypt returned: 403 for
\* ErrTooEarly itself, 500 for any other error, 200 for none; a panic in
\* the handler ends the connection without an answer (status 0)
StatusOf(decryptErr) ==
    IF decryptErr = ErrTooEarly THEN 403
    ELSE IF decryptErr = PanicDivide THEN 0
    ELSE IF decryptErr # ErrNil THEN 500
    ELSE 200

\* the time that passes between the clock reading of Decrypt and the
\* second reading, of the 403 branch (units)
ClockLags == { 0, 1 }

\* handleGetNote: GET /note/{id}/{h}
handleGetNote ==
    \E link \in Links, beacon \in Beacons, lag \in ClockLags :
        LET id  == link[1]
            h   == link[2]
            got == Get(db, now, id, h)
            d   == IF got.err = ErrNotFound
                   THEN [plaintext |-> <<>>, err |-> "none", fetched |-> FALSE]
                   ELSE IF testMode
                   THEN [plaintext |-> got.note.Cipher, err |-> ErrNil, fetched |-> FALSE]
                   ELSE Decrypt(got.note.Cipher, got.note.Round, now, beacon)
            status == IF got.err = ErrNotFound THEN 404 ELSE StatusOf(d.err)
        IN  /\ ret' = [op |-> "GET", id |-> id, h |-> h, status |-> status,
                       content |-> IF status = 200 THEN HTMLEscapeString(d.plaintext) ELSE <<>>,
                       remaining |-> IF status = 403
                                     THEN Sub(got.note.UnlockAt, now + lag) ELSE 0,
                       unlockAt |-> got.note.UnlockAt, round |-> got.note.Round,
                       decryptErr |-> d.err, fetched |-> d.fetched,
                       beaconErr |-> d.fetched /\ beacon.err]
            /\ UNCHANGED <<now, enc, db, testMode, issued, inflight>>

Next == Tick \/ handleCreateNote \/ handleGetNote
Spec == Init /\ [][Next]_vars

---------------------------------------------------------------------------
(* Properties of the codec. *)

\* the instant round r is published: genesisTime + r * period, exactly
RoundInstant(r) == (GenesisTime + r * Period) * Second

\* the round of an instant by floor division, exactly
FloorRound(t) == (Unix(t) - GenesisTime) \div Period

\* the blob b is the blob a with exactly one byte changed
OneByteChanged(a, b) ==
    /\ Len(a) = Len(b)
    /\ Cardinality({ i \in 1 .. Len(a) : a[i] # b[i] }) = 1

\* a Decrypt call at this instant, of what the last Encrypt returned
DecryptOfEncrypted ==
    /\ ret.op = "Decrypt"
    /\ enc.err = ErrNil
    /\ ret.round = enc.round

BeaconAnswered == ~ret.beacon.err /\ ret.beacon.randomness # <<>>

\* C1: Decrypt of what Encrypt returned, at or after the instant the round
\* is published and with any non-empty randomness, returns the plaintext.
C1_RoundTrip ==
    ( /\ DecryptOfEncrypted
      /\ ret.ciphertext = enc.ciphertext
      /\ now >= RoundInstant(enc.round)
      /\ BeaconAnswered )
    => (ret.err = ErrNil /\ ret.plaintext = enc.plaintext)

\* C2: Decrypt called strictly before genesisTime + round * period returns
\* ErrTooEarly, for every round, blob and beacon content.
C2_TooEarlyBeforeRound ==
    (ret.op = "Decrypt" /\ now < RoundInstant(ret.round))
    => ret.err = ErrTooEarly

\* C4: Encrypt fails, returning nothing, whenever the round of unlockAt by
\* floor division is at most the round of the clock.
C4_EncryptRefusesPast ==
    (ret.op = "Encrypt" /\ FloorRound(enc.unlockAt) <= FloorRound(now))
    => ( /\ enc.err = ErrUnlockTime
         /\ enc.ciphertext = <<>> /\ enc.hash = <<>> /\ enc.round = 0 )

\* C5: a successful Encrypt returns a round strictly greater than the round
\* of the clock, so the record it produced is not unlockable at that instant.
C5_RoundInFuture ==
    (ret.op = "Encrypt" /\ enc.err = ErrNil)
    => ( /\ enc.round > enc.currentRound
         /\ Decrypt(enc.ciphertext, enc.round, now,
                    [err |-> TRUE, randomness |-> <<>>]).err = ErrTooEarly )

\* C6: Decrypt of an Encrypt blob with exactly one byte changed, at or after
\* the unlock instant and with any non-empty randomness, fails with the
\* decryption error and returns no plaintext.
C6_TamperDetected ==
    ( /\ DecryptOfEncrypted
      /\ OneByteChanged(enc.ciphertext, ret.ciphertext)
      /\ now >= RoundInstant(enc.round)
      /\ BeaconAnswered )
    => (ret.err = ErrDecrypt /\ ret.plaintext = <<>>)

---------------------------------------------------------------------------
(* Properties of the store. *)

\* the notes held by entries that a read still sees
LiveNotes ==
    { UnmarshalNote(db[k].value) : k \in { x \in DOMAIN db : ~Expired(db[x], now) } }

C8_ExactMatch ==
    (ret.op = "Get" /\ ret.err = ErrNil)
    => (ret.note.ID = ret.id /\ ret.note.Hash = ret.hash)

\* C9: Get at an instant after unlockAt + retention returns ErrNotFound.
C9_ExpiredNotFound ==
    (ret.op = "Get" /\ ret.err = ErrNil)
    => now <= ret.note.UnlockAt + Retention

---------------------------------------------------------------------------
(* Properties of the server. *)

\* C3: before the unlock instant of a note made by Encrypt and stored by
\* the create path, Decrypt of its blob and round gives no plaintext and
\* GET of its link does not answer 200.
C3_NoReadBeforeUnlock ==
    \A m \in StoredNotes :
        (~testMode /\ now < m.UnlockAt)
        => /\ \A beacon \in Beacons :
                 Decrypt(m.Cipher, m.Round, now, beacon).err # ErrNil
           /\ ~(ret.op = "GET" /\ ret.id = m.ID /\ ret.h = m.Hash /\ ret.status = 200)

\* the beacon client failing: network error, timeout, round not published
FailedBeacon == [err |-> TRUE, randomness |-> <<>>]

\* C11: at or after the instant of the round, Decrypt with a failing beacon
\* fetch returns an error other than ErrTooEarly, and handleGetNote does not
\* answer 403 to a GET whose beacon fetch failed (it answers 500).
C11_BeaconFailureNotLocked ==
    /\ \A m \in StoredNotes : \A r \in RoundChoices \cup {m.Round} :
          now >= RoundInstant(r)
          => Decrypt(m.Cipher, r, now, FailedBeacon).err \notin {ErrNil, ErrTooEarly}
    /\ (ret.op = "GET" /\ ret.beaconErr) => ret.status = 500

\* a GET at or after the instant of the note's round whose beacon fetch failed
C11_Witness ==
    /\ ret.op = "GET" /\ ret.beaconErr
    /\ now >= RoundInstant(ret.round)
    /\ ret.decryptErr = ErrFetch /\ ret.status = 500

\* C12: Decrypt called at or after the instant of the round with a blob of
\* MinCiphertext bytes or more, when the beacon answers with an empty
\* randomness, returns an error to its caller: it does not panic and it
\* returns no plaintext.
C12_EmptyRandomnessIsError ==
    ( /\ ret.op = "Decrypt"
      /\ now >= RoundInstant(ret.round)
      /\ Len(ret.ciphertext) >= MinCiphertext
      /\ ~ret.beacon.err /\ ret.beacon.randomness = <<>> )
    => (ret.err \notin {ErrNil, PanicDivide} /\ ret.plaintext = <<>>)

\* C13: a stored record is never mutated: no Save or Get call changes the
\* blob, round or unlockAt that Get returns for a key, as long as Get
\* returns a record for that key before and after the call.
C13_NeverMutated ==
    [][ \A id \in IDs, h \in Hashes :
          LET before == Get(db, now, id, h)
              after  == Get(db', now', id, h)
          IN  (before.err = ErrNil /\ after.err = ErrNil)
              => /\ after.note.Cipher = before.note.Cipher
                 /\ after.note.Round = before.note.Round
                 /\ after.note.UnlockAt = before.note.UnlockAt ]_vars

\* a GET of the link a POST has just returned, on a test-mode server
GetOfCreated ==
    /\ testMode
    /\ ret.op = "POST" /\ ret.status = 201
    /\ ret'.op = "GET" /\ ret'.id = ret.id /\ ret'.h = ret.hash

\* the text occurs in the page
Contains(page, text) ==
    \E i \in 0 .. Len(page) - Len(text) : SubSeq(page, i + 1, i + Len(text)) = text

C15_FingerprintOfBlob ==
    /\ \A m \in StoredNotes : m.Hash = HexEncodeToString(Sha256(m.Cipher))
    /\ (ret.op = "POST" /\ ret.status = 201)
          => \E m \in StoredNotes :
                /\ m.ID = ret.id /\ m.Hash = ret.hash
                /\ ret.hash = HexEncodeToString(Sha256(m.Cipher))

\* C16: the clock check precedes the beacon call: a Decrypt call asks the
\* beacon client only if the clock is at or after genesisTime + round *
\* period, and a Decrypt that returned ErrTooEarly has not asked it.
C16_ClockBeforeBeacon ==
    ret.op = "Decrypt"
    => /\ ret.fetched => now >= RoundInstant(ret.round)
       /\ ret.err = ErrTooEarly => ~ret.fetched

\* C17: at or after the instant of the round and with a beacon fetch that
\* succeeded, Decrypt returns the too-short error, without a panic and
\* without plaintext, for every blob shorter than MinCiphertext bytes, the
\* empty blob included, and for no blob of MinCiphertext bytes or more.
C17_ShortBlobRefused ==
    ( /\ ret.op = "Decrypt"
      /\ now >= RoundInstant(ret.round)
      /\ ~ret.beacon.err )
    => /\ Len(ret.ciphertext) < MinCiphertext
            => (ret.err = ErrTooShort /\ ret.plaintext = <<>>)
       /\ Len(ret.ciphertext) >= MinCiphertext => ret.err # ErrTooShort

\* a blob one byte short of the minimum refused after a fetch that succeeded
C17_Witness ==
    /\ ret.op = "Decrypt"
    /\ now >= RoundInstant(ret.round)
    /\ ~ret.beacon.err /\ ret.fetched
    /\ Len(ret.ciphertext) = MinCiphertext - 1
    /\ ret.err = ErrTooShort

\* the (id, fingerprint) pair the call of this step was made for
Acted ==
    IF ret'.op = "Save" THEN <<ret'.note.ID, ret'.note.Hash>>
    ELSE <<ret'.id, ret'.hash>>

\* the call of this step is a Get, or a Save for a pair that no entry of
\* the store was saved for
DistinctKeyCall ==
    \/ ret'.op = "Get"
    \/ /\ ret'.op = "Save"
       /\ \A m \in StoredNotes : <<m.ID, m.Hash>> # Acted

\* C18: in any interleaving of Get calls and of Save calls for distinct
\* (id, fingerprint) pairs, a Save that returned without error leaves its
\* record retrievable unchanged (as long as it has not expired), and no
\* Save or Get call alters or removes the record that Get returns for
\* another pair than its own.
C18_OtherKeysUntouched ==
    /\ []( ( /\ ret.op = "Save" /\ ret.err = ErrNil
              /\ Unix(now) < Unix(ret.note.UnlockAt + Retention) )
            => Get(db, now, ret.note.ID, ret.note.Hash)
                 = [note |-> ret.note, err |-> ErrNil] )
    /\ [][ DistinctKeyCall
            => \A id \in IDs, h \in Hashes :
                  (<<id, h>> # Acted /\ Get(db, now, id, h).err = ErrNil)
                  => Get(db', now', id, h) = Get(db, now, id, h) ]_vars

\* C20: for every note stored by the create path in normal mode, the expiry
\* instant unlockAt + retention is strictly later than the instant
\* genesisTime + round * period of the stored round, and there is an
\* instant at which Decrypt's time gate for the note is open and Get still
\* returns it.
C20_ReadableInterval ==
    ~testMode
    => \A m \in StoredNotes :
          /\ m.UnlockAt + Retention > RoundInstant(m.Round)
          /\ \E t \in StartNow .. MaxJSONTime :
                /\ t >= UnlockTime(m.Round)
                /\ Get(db, t, m.ID, m.Hash).err = ErrNil

\* C21: whenever handleGetNote answers 403, the remaining time it renders,
\* note.UnlockAt minus the clock, is strictly positive: the locked answer
\* is not given for a stored note whose unlockAt has passed.
C21_LockedHasTimeLeft ==
    (ret.op = "GET" /\ ret.status = 403)
    => (ret.remaining > 0 /\ now < ret.unlockAt)

---------------------------------------------------------------------------
(* Properties of the fetch. *)

\* C19: every Decrypt call eventually returns: a call that waits for the
\* beacon does not wait past the deadline of FetchTimeout, and when the
\* deadline comes without an answer, or the beacon answers with an error
\* (the round is not published), the call ends with the fetch error.
C19_DecryptReturns ==
    /\ (inflight # NoFetch) ~> (inflight = NoFetch)
    /\ [](inflight # NoFetch => now <= inflight.clock + FetchTimeout)
    /\ [][ (inflight # NoFetch /\ inflight' = NoFetch)
            => /\ ret'.op = "Decrypt"
               /\ (TimedOut(inflight, now) \/ ret'.beacon.err) => ret'.err = ErrFetch ]_vars

\* a Decrypt call that waited the whole timeout and returned the fetch error
C19_Witness ==
    /\ inflight = NoFetch
    /\ ret.op = "Decrypt" /\ ret.fetched
    /\ ret.waited = FetchTimeout
    /\ ret.err = ErrFetch

=============================================================================
